---- MODULE Spec2Model ----
(***************************************************************************)
(* Document-delivery admin dashboard.                                      *)
(*                                                                         *)
(* The model covers the ProjectProvider of src/context/ProjectContext.tsx  *)
(* (local React state, the database tables it talks to, the realtime       *)
(* subscriptions that refetch them and the outbound delivery notifier)     *)
(* and the status derivation of the admin document status page.            *)
(*                                                                         *)
(* An async handler is split at its awaits: the database executes the      *)
(* request in one step, the code after the await runs in a later step.     *)
(* A handler reads the React state of the render that created it, so a     *)
(* handler that awaits keeps the lists it saw when it was called.          *)
(* addOrder, addProjectDocument, sendProjectDocuments and the two fetches  *)
(* are split this way.  The update and delete handlers write the table and *)
(* the list in one step; updateOrderStatus and deleteProjectDocument also  *)
(* have their error branch, which logs and returns, and record the         *)
(* request and its answer.  setState is taken as applied where it is       *)
(* called.  One call of addOrder and one of sendProjectDocuments is in     *)
(* flight at a time.                                                       *)
(*                                                                         *)
(* A document carries id, project_id, name, review_stage and is_active;    *)
(* url, document_category and size are copied into the manifest exactly as *)
(* name is and are represented by it.  An order carries id, projectId,     *)
(* status and updated_at; the customer and title columns are copied        *)
(* through unchanged.                                                      *)
(*                                                                         *)
(* Spec is the provider, SpecFetched the provider when every fetch is      *)
(* answered with data, SpecPage the status page over given lists.          *)
(***************************************************************************)
EXTENDS Integers, Sequences, FiniteSets, TLC

\* ---------------------------------------------------------------- bounds
MaxOrders == 1        \* order rows inserted after the provider mounted
MaxAddCalls == 2      \* calls of addOrder
MaxDocs == 1          \* document rows inserted after the provider mounted
NumProjects == 2      \* project ids orders and documents refer to
MaxFetches == 2       \* responses of one table's fetch in flight
MaxChannel == 1       \* fetches of one table triggered and not yet started
MaxProjects == 1      \* project rows inserted after the provider mounted
MaxInquiries == 1     \* inquiry rows inserted after the provider mounted
MaxOps == 1           \* handler calls made by the user interface

ProjectIds == 1..NumProjects

\* order.status is a free string; 'pending' and 'completed' are the two the
\* page tests for, "processing" stands for every other lifecycle status
OrderStatuses == {"pending", "completed", "processing"}

\* review_stage is a text column; the page counts three stages, "final"
\* stands for every other value
ReviewStages == {"review_1", "review_2", "review_3", "final"}

\* the stages the provider's handlers are called with
UploadStages == {"review_3", "final"}

VARIABLES
    dbOrders,          \* table orders: set of rows
    dbDocs,            \* table project_documents: set of rows
    nextOrderId,       \* next id the database gives an order row
    nextDocId,         \* next id the database gives a document row
    orders,            \* useState orders
    projectDocuments,  \* useState projectDocuments
    projects,          \* useState projects
    inquiries,         \* useState inquiries
    ordersChannel,     \* fetchOrders runs triggered (mount, change events)
    docsChannel,       \* fetchProjectDocuments runs triggered
    ordersFetches,     \* fetchOrders responses not yet handled
    docsFetches,       \* fetchProjectDocuments responses not yet handled
    docInserts,        \* addProjectDocument responses not yet handled
    addCall,           \* the current (or last) call of addOrder
    addCount,          \* calls of addOrder so far
    manual,            \* the current (or last) call of sendProjectDocuments
    opCount,           \* handler calls made so far
    request,           \* the last update request of updateOrderStatus or
                       \* deleteProjectDocument: its arguments, whether the
                       \* database answered with an error, whether the handler
                       \* threw, and which handler call made it
    selectedOrder,     \* status page: useState selectedOrder
    showDetailsModal   \* status page: useState showDetailsModal

vars == <<dbOrders, dbDocs, nextOrderId, nextDocId, orders, projectDocuments,
          projects, inquiries, ordersChannel, docsChannel, ordersFetches,
          docsFetches, docInserts, addCall, addCount, manual, opCount,
          request, selectedOrder, showDetailsModal>>

dbVars == <<dbOrders, dbDocs, nextOrderId, nextDocId>>
pageVars == <<selectedOrder, showDetailsModal>>

\* rows the tables hold when the provider mounts; updated_at is a logical
\* time: 1 when the row is inserted, one more with every update of the row
SeedOrders == {[id |-> 1, project_id |-> 1, status |-> "pending", updated_at |-> 1]}

SeedDocs ==
    {[id |-> 1, project_id |-> 1, name |-> 1, review_stage |-> "review_1",
      is_active |-> TRUE],
     [id |-> 2, project_id |-> 2, name |-> 2, review_stage |-> "review_2",
      is_active |-> TRUE]}

\* the ids the database gives to the first rows inserted after that
FirstOrderId == Cardinality(SeedOrders) + 1
FirstDocId == Cardinality(SeedDocs) + 1

\* ---------------------------------------------------------------- helpers
\* .order('created_at', { ascending: false }): ids grow with creation time
RECURSIVE OrderDesc(_)
OrderDesc(rows) ==
    IF rows = {} THEN <<>>
    ELSE LET r == CHOOSE x \in rows : \A y \in rows : y.id <= x.id
         IN  <<r>> \o OrderDesc(rows \ {r})

\* array.map
MapSeq(s, F(_)) == [i \in 1..Len(s) |-> F(s[i])]

\* ---------------------------------------------------------------- context
\* fetchOrders / addOrder: row -> frontend order (camelCase copy of the row)
ConvertOrder(row) ==
    [id |-> row.id, projectId |-> row.project_id, status |-> row.status,
     updated_at |-> row.updated_at]

\* mutant: the documents of every project are taken
getProjectDocumentsOfAnyProject(docs, projectId) ==
    SelectSeq(docs, LAMBDA doc : doc.is_active)

getProjectDocumentsOf(docs, projectId) ==
    SelectSeq(docs, LAMBDA doc : doc.project_id = projectId /\ doc.is_active)

getProjectDocuments(projectId) ==
    getProjectDocumentsOf(projectDocuments, projectId)

\* mutant: soft-deleted documents are not left out
getDocumentsByReviewStageAll(projectId, reviewStage) ==
    SelectSeq(projectDocuments,
              LAMBDA doc : /\ doc.project_id = projectId
                           /\ doc.review_stage = reviewStage)

getDocumentsByReviewStage(projectId, reviewStage) ==
    SelectSeq(projectDocuments,
              LAMBDA doc : /\ doc.project_id = projectId
                           /\ doc.review_stage = reviewStage
                           /\ doc.is_active)

\* sendProjectDocumentsForOrder: formattedDocuments
FormatDocument(doc) == [name |-> doc.name, review_stage |-> doc.review_stage]

FormattedDocuments(documents) == MapSeq(documents, FormatDocument)

\* sendProjectDocumentsForOrder: the payload handed to sendDocumentDelivery,
\* documents being what getProjectDocuments(order.projectId) returned
DeliveryPayload(documents, order) ==
    [order_id |-> order.id, documents |-> FormattedDocuments(documents)]

NoPayload == [order_id |-> 0, documents |-> <<>>]


\* ---------------------------------------------------------------- status page
\* mutant: the order's status is tested before the document count
ClassifyStatusByOrderFirst(totalDocuments, status) ==
    IF status = "completed" THEN "delivered"
    ELSE IF status = "pending" THEN "pending"
    ELSE IF totalDocuments = 0 THEN "no-documents"
    ELSE "partial"

\* mutant: a lifecycle status the page does not know gets no class
ClassifyStatusUnknown(totalDocuments, status) ==
    IF totalDocuments = 0 THEN "no-documents"
    ELSE IF status = "completed" /\ totalDocuments > 0 THEN "delivered"
    ELSE IF totalDocuments > 0 /\ status = "pending" THEN "pending"
    ELSE "unknown"

\* documentStatuses: "Determine status"
ClassifyStatus(totalDocuments, status) ==
    IF totalDocuments = 0 THEN "no-documents"
    ELSE IF status = "completed" /\ totalDocuments > 0 THEN "delivered"
    ELSE IF totalDocuments > 0 /\ status = "pending" THEN "pending"
    ELSE "partial"

\* documentStatuses: "Count documents by review stage"
CountStage(documents, stage) ==
    Len(SelectSeq(documents, LAMBDA doc : doc.review_stage = stage))

\* JavaScript's undefined, where a time is expected
Undefined == 0

\* mutant: every row carries the order's time of update
LastDeliveryDateAlways(status, order) == order.updated_at

\* documentStatuses: lastDeliveryDate; order.updated_at || order.updatedAt
\* are two copies of the same column
LastDeliveryDate(status, order) ==
    IF status = "delivered" THEN order.updated_at ELSE Undefined

\* documentStatuses: one row of the table
DocumentStatusOf(order) ==
    LET documents == getProjectDocuments(order.projectId)
        totalDocuments == Len(documents)
    IN  [orderId |-> order.id,
         status |-> ClassifyStatus(totalDocuments, order.status),
         documentsCount |-> totalDocuments,
         reviewStages |-> [review_1 |-> CountStage(documents, "review_1"),
                           review_2 |-> CountStage(documents, "review_2"),
                           review_3 |-> CountStage(documents, "review_3")],
         lastDeliveryDate |-> LastDeliveryDate(
                                 ClassifyStatus(totalDocuments, order.status),
                                 order)]

documentStatuses == MapSeq(orders, DocumentStatusOf)

\* status cell: {status.lastDeliveryDate && (<div>Delivered: ...</div>)}
ShowsDeliveryDate(row) == row.lastDeliveryDate # Undefined

\* actions cell: the "Upload documents" button
OffersUpload(row) == row.status = "no-documents"

\* mutant: the button is shown for pending rows only
OffersSendPendingOnly(row) == row.status = "pending" /\ row.documentsCount > 0

\* actions cell: the "Send documents" button
OffersSend(row) ==
    (row.status = "pending" \/ row.status = "partial") /\ row.documentsCount > 0

CountStatus(rows, st) == Len(SelectSeq(rows, LAMBDA s : s.status = st))

stats ==
    [total |-> Len(documentStatuses),
     delivered |-> CountStatus(documentStatuses, "delivered"),
     pending |-> CountStatus(documentStatuses, "pending"),
     noDocuments |-> CountStatus(documentStatuses, "no-documents"),
     partial |-> CountStatus(documentStatuses, "partial")]

\* useState<Order | null>(null)
NoSelection == [id |-> 0, projectId |-> 0, status |-> "none", updated_at |-> 0]

\* openDetailsModal
OpenDetailsModal(orderId) ==
    /\ \E i \in 1..Len(orders) : orders[i].id = orderId
    /\ LET i == CHOOSE j \in 1..Len(orders) :
                    /\ orders[j].id = orderId
                    /\ \A k \in 1..(j - 1) : orders[k].id # orderId
       IN  selectedOrder' = orders[i]
    /\ showDetailsModal' = TRUE
    /\ UNCHANGED <<dbVars, orders, projectDocuments, projects, inquiries,
                   ordersChannel, docsChannel, ordersFetches, docsFetches,
                   docInserts, addCall, addCount, manual, opCount, request>>

\* the modal's close buttons: setShowDetailsModal(false)
CloseDetailsModal ==
    /\ showDetailsModal
    /\ showDetailsModal' = FALSE
    /\ UNCHANGED <<dbVars, orders, projectDocuments, projects, inquiries,
                   ordersChannel, docsChannel, ordersFetches, docsFetches,
                   docInserts, addCall, addCount, manual, opCount, request,
                   selectedOrder>>

\* the details modal is rendered: showDetailsModal && selectedOrder
ModalShown == showDetailsModal /\ selectedOrder # NoSelection

\* the modal's "Recommended Actions" for the order it holds
RecommendedAction(order) ==
    LET totalDocs == Len(getProjectDocuments(order.projectId))
    IN  IF totalDocs = 0 THEN "Upload Documents"
        ELSE IF order.status = "pending" THEN "Send Documents"
        ELSE "Documents Delivered"

\* ---------------------------------------------------------------- fetches
\* how a select ends: { data }, { error }, or a rejected promise
FetchKinds == {"data", "error", "throw"}

\* the realtime callback (or the mount effect) calls fetchOrders; the
\* database reads the table
StartFetchOrders ==
    /\ ordersChannel > 0
    /\ Cardinality(ordersFetches) < MaxFetches
    /\ ordersChannel' = ordersChannel - 1
    /\ ordersFetches' = ordersFetches \cup {OrderDesc(dbOrders)}
    /\ UNCHANGED <<dbVars, orders, projectDocuments, projects, inquiries,
                   docsChannel, docsFetches, docInserts, addCall, addCount,
                   manual, opCount,
                   pageVars, request>>

\* fetchOrders after its await
OrdersAfterFetch(prevOrders, rows, kind) ==
    IF kind = "data" THEN MapSeq(rows, ConvertOrder) ELSE prevOrders

FetchOrdersReturn(rows, kind) ==
    /\ rows \in ordersFetches
    /\ ordersFetches' = ordersFetches \ {rows}
    /\ orders' = OrdersAfterFetch(orders, rows, kind)
    /\ UNCHANGED <<dbVars, projectDocuments, projects, inquiries, ordersChannel,
                   docsChannel, docsFetches, docInserts, addCall, addCount,
                   manual, opCount,
                   pageVars, request>>

StartFetchProjectDocuments ==
    /\ docsChannel > 0
    /\ Cardinality(docsFetches) < MaxFetches
    /\ docsChannel' = docsChannel - 1
    /\ docsFetches' = docsFetches \cup
                         {OrderDesc({d \in dbDocs : d.is_active = TRUE})}
    /\ UNCHANGED <<dbVars, orders, projectDocuments, projects, inquiries,
                   ordersChannel, ordersFetches, docInserts, addCall, addCount,
                   manual, opCount,
                   pageVars, request>>

\* fetchProjectDocuments after its await; the catch block empties the list
DocsAfterFetch(prevDocs, rows, kind) ==
    IF kind = "data" THEN rows
    ELSE IF kind = "throw" THEN <<>>
    ELSE prevDocs

FetchProjectDocumentsReturn(rows, kind) ==
    /\ rows \in docsFetches
    /\ docsFetches' = docsFetches \ {rows}
    /\ projectDocuments' = DocsAfterFetch(projectDocuments, rows, kind)
    /\ UNCHANGED <<dbVars, orders, projects, inquiries, ordersChannel,
                   docsChannel, ordersFetches, docInserts, addCall, addCount,
                   manual, opCount,
                   pageVars, request>>

\* ---------------------------------------------------------------- addOrder
NoRow == [id |-> 0, project_id |-> 0, status |-> "none", updated_at |-> 0]

\* a call of addOrder: where it stands (pc), the insert's answer (error,
\* data), the projectDocuments its closure holds (docs), the notifier calls
\* it made and their payload, whether its catch block ran (emailError), and
\* the id of the order it returned
IdleCall ==
    [pc |-> "idle", error |-> FALSE, data |-> NoRow, docs |-> <<>>,
     notified |-> 0, payload |-> NoPayload, emailError |-> FALSE,
     returned |-> 0]

\* addOrder up to its first await: the insert request.  The call keeps the
\* projectDocuments of the render it was made in; that list never changes,
\* so docs holds what its getProjectDocuments(order.projectId) returns.
AddOrderCall(projectId, status, ok) ==
    /\ opCount < MaxOps
    /\ opCount' = opCount + 1
    /\ addCall.pc \in {"idle", "returned", "thrown"}
    /\ addCount < MaxAddCalls
    /\ addCount' = addCount + 1
    /\ IF ok
       THEN /\ nextOrderId < FirstOrderId + MaxOrders
            /\ ordersChannel < MaxChannel
            /\ dbOrders' = dbOrders \cup
                  {[id |-> nextOrderId, project_id |-> projectId, status |-> status,
                    updated_at |-> 1]}
            /\ nextOrderId' = nextOrderId + 1
            /\ ordersChannel' = ordersChannel + 1
            /\ addCall' = [pc |-> "awaitInsert", error |-> FALSE,
                           data |-> [id |-> nextOrderId, project_id |-> projectId,
                                     status |-> status, updated_at |-> 1],
                           docs |-> getProjectDocuments(projectId),
                           notified |-> 0, payload |-> NoPayload,
                           emailError |-> FALSE, returned |-> 0]
       ELSE /\ addCall' = [pc |-> "awaitInsert", error |-> TRUE,
                           data |-> [id |-> 0, project_id |-> projectId,
                                     status |-> status, updated_at |-> 0],
                           docs |-> getProjectDocuments(projectId),
                           notified |-> 0, payload |-> NoPayload,
                           emailError |-> FALSE, returned |-> 0]
            /\ UNCHANGED <<dbOrders, nextOrderId, ordersChannel>>
    /\ UNCHANGED <<dbDocs, nextDocId, orders, projectDocuments, projects,
                   inquiries, docsChannel, ordersFetches, docsFetches,
                   docInserts, manual,
                   pageVars, request>>

\* mutant: the error is logged and addOrder returns, as the update and
\* delete handlers do
InsertFailedSwallowed(call) ==
    [call EXCEPT !.pc = "returned", !.docs = <<>>, !.data = NoRow]

\* addOrder: if (error) { ...; throw error; }
InsertFailed(call) ==
    [call EXCEPT !.pc = "thrown", !.docs = <<>>, !.data = NoRow]

\* mutant: the new order is left to the realtime refetch
OrdersAfterInsertNoAppend(prevOrders, convertedOrder) == prevOrders

\* addOrder: setOrders(prevOrders => [...prevOrders, convertedOrder])
OrdersAfterInsert(prevOrders, convertedOrder) == Append(prevOrders, convertedOrder)

\* mutant: nothing is sent when the project has no documents
NotifyCallSkipEmpty(call) ==
    IF call.docs = <<>>
    THEN [call EXCEPT !.pc = "returned", !.data = NoRow, !.docs = <<>>,
                      !.returned = call.data.id]
    ELSE [call EXCEPT !.pc = "awaitNotify",
                      !.notified = @ + 1,
                      !.payload = DeliveryPayload(call.docs, ConvertOrder(call.data)),
                      !.docs = <<>>]

\* sendProjectDocumentsForOrder up to its await: the manifest is built from
\* the documents the call sees and sendDocumentDelivery is invoked
NotifyCall(call) ==
    [call EXCEPT !.pc = "awaitNotify",
                 !.notified = @ + 1,
                 !.payload = DeliveryPayload(call.docs, ConvertOrder(call.data)),
                 !.docs = <<>>]

\* addOrder between the insert's answer and the notifier's await
AddOrderInsertReturn ==
    /\ addCall.pc = "awaitInsert"
    /\ IF addCall.error
       THEN /\ addCall' = InsertFailed(addCall)
            /\ UNCHANGED orders
       ELSE /\ orders' = OrdersAfterInsert(orders, ConvertOrder(addCall.data))
            /\ addCall' = NotifyCall(addCall)
    /\ UNCHANGED <<dbVars, projectDocuments, projects, inquiries, ordersChannel,
                   docsChannel, ordersFetches, docsFetches, docInserts, manual,
                   addCount, opCount,
                   pageVars, request>>

\* addOrder after sendProjectDocumentsForOrder resolved: return convertedOrder
NotifySucceeded(call) ==
    [call EXCEPT !.pc = "returned", !.payload = NoPayload, !.data = NoRow,
                 !.returned = call.data.id]

\* mutant: the email error is rethrown
NotifyFailedThrows(call) ==
    [call EXCEPT !.pc = "thrown", !.payload = NoPayload, !.data = NoRow,
                 !.emailError = TRUE]

\* mutant: a failed delivery is sent a second time
NotifyFailedRetry(call) ==
    IF call.notified < 2
    THEN [call EXCEPT !.notified = @ + 1, !.emailError = TRUE]
    ELSE [call EXCEPT !.pc = "returned", !.payload = NoPayload, !.data = NoRow,
                      !.emailError = TRUE, !.returned = call.data.id]

\* addOrder: catch (emailError) { console.error(...) } then return convertedOrder
NotifyFailed(call) ==
    [call EXCEPT !.pc = "returned", !.payload = NoPayload, !.data = NoRow,
                 !.emailError = TRUE, !.returned = call.data.id]

AddOrderNotifyReturn(ok) ==
    /\ addCall.pc = "awaitNotify"
    /\ addCall' = IF ok THEN NotifySucceeded(addCall) ELSE NotifyFailed(addCall)
    /\ UNCHANGED <<dbVars, orders, projectDocuments, projects, inquiries,
                   ordersChannel, docsChannel, ordersFetches, docsFetches,
                   docInserts, manual, addCount, opCount,
                   pageVars, request>>

\* ---------------------------------------------------------------- orders
\* ids the user interface can name: those handed out so far
OrderIds == 1..(nextOrderId - 1)
AllOrderIds == 1..(FirstOrderId + MaxOrders - 1)

\* no update request made yet
NoRequest ==
    [handler |-> "none", id |-> 0, status |-> "none", error |-> FALSE,
     thrown |-> FALSE, call |-> 0]

\* mutant: the local order also takes the time of the update
StatusAfterUpdateStamped(prevOrders, id, status) ==
    MapSeq(prevOrders, LAMBDA order :
              IF order.id = id
              THEN [order EXCEPT !.status = status, !.updated_at = @ + 1]
              ELSE order)

\* updateOrderStatus: setOrders(prevOrders => prevOrders.map(...))
StatusAfterUpdate(prevOrders, id, status) ==
    MapSeq(prevOrders, LAMBDA order :
              IF order.id = id THEN [order EXCEPT !.status = status] ELSE order)

\* updateOrderStatus: the update and, unless it failed, the local map; on
\* an error the handler logs and returns
UpdateOrderStatus(id, status, ok) ==
    /\ opCount < MaxOps
    /\ opCount' = opCount + 1
    /\ id \in OrderIds
    /\ request' = [handler |-> "updateOrderStatus", id |-> id, status |-> status,
                   error |-> ~ok, thrown |-> FALSE, call |-> opCount + 1]
    /\ IF ok
       THEN /\ ordersChannel < MaxChannel
            /\ dbOrders' = {IF r.id = id
                            THEN [r EXCEPT !.status = status,
                                           !.updated_at = @ + 1]
                            ELSE r : r \in dbOrders}
            /\ ordersChannel' = IF \E r \in dbOrders : r.id = id
                                THEN ordersChannel + 1 ELSE ordersChannel
            /\ orders' = StatusAfterUpdate(orders, id, status)
       ELSE UNCHANGED <<dbOrders, ordersChannel, orders>>
    /\ UNCHANGED <<dbDocs, nextOrderId, nextDocId, projectDocuments, projects,
                   inquiries, docsChannel, ordersFetches, docsFetches,
                   docInserts, addCall, addCount, manual,
                   pageVars>>

\* deleteOrder, successful
DeleteOrder(id) ==
    /\ opCount < MaxOps
    /\ opCount' = opCount + 1
    /\ id \in OrderIds
    /\ ordersChannel < MaxChannel
    /\ dbOrders' = {r \in dbOrders : r.id # id}
    /\ ordersChannel' = IF \E r \in dbOrders : r.id = id
                        THEN ordersChannel + 1 ELSE ordersChannel
    /\ orders' = SelectSeq(orders, LAMBDA order : order.id # id)
    /\ UNCHANGED <<dbDocs, nextOrderId, nextDocId, projectDocuments, projects,
                   inquiries, docsChannel, ordersFetches, docsFetches,
                   docInserts, addCall, addCount, manual,
                   pageVars, request>>

\* ---------------------------------------------------------------- documents
DocIds == 1..(nextDocId - 1)

\* addProjectDocument up to its await: the insert, successful
AddProjectDocumentCall(projectId, reviewStage) ==
    /\ opCount < MaxOps
    /\ opCount' = opCount + 1
    /\ nextDocId < FirstDocId + MaxDocs
    /\ docsChannel < MaxChannel
    /\ LET data == [id |-> nextDocId, project_id |-> projectId,
                    name |-> nextDocId, review_stage |-> reviewStage,
                    is_active |-> TRUE]
       IN  /\ dbDocs' = dbDocs \cup {data}
           /\ docInserts' = docInserts \cup {data}
    /\ nextDocId' = nextDocId + 1
    /\ docsChannel' = docsChannel + 1
    /\ UNCHANGED <<dbOrders, nextOrderId, orders, projectDocuments, projects,
                   inquiries, ordersChannel, ordersFetches, docsFetches,
                   addCall, addCount, manual,
                   pageVars, request>>

\* addProjectDocument after its await
AddProjectDocumentReturn(data) ==
    /\ data \in docInserts
    /\ docInserts' = docInserts \ {data}
    /\ projectDocuments' = Append(projectDocuments, data)
    /\ UNCHANGED <<dbVars, orders, projects, inquiries, ordersChannel,
                   docsChannel, ordersFetches, docsFetches, addCall, addCount, manual, opCount,
                   pageVars, request>>

\* updateProjectDocument, successful; the partial document sets the review
\* stage or the active flag
DocumentPatches ==
    [field : {"review_stage"}, value : UploadStages] \cup
    [field : {"is_active"}, value : BOOLEAN]

ApplyPatch(doc, patch) ==
    IF patch.field = "review_stage"
    THEN [doc EXCEPT !.review_stage = patch.value]
    ELSE [doc EXCEPT !.is_active = patch.value]

UpdateProjectDocument(id, patch) ==
    /\ opCount < MaxOps
    /\ opCount' = opCount + 1
    /\ id \in DocIds
    /\ docsChannel < MaxChannel
    /\ dbDocs' = {IF d.id = id THEN ApplyPatch(d, patch) ELSE d : d \in dbDocs}
    /\ docsChannel' = docsChannel + 1
    /\ projectDocuments' = MapSeq(projectDocuments, LAMBDA doc :
                              IF doc.id = id THEN ApplyPatch(doc, patch) ELSE doc)
    /\ UNCHANGED <<dbOrders, nextOrderId, nextDocId, orders, projects, inquiries,
                   ordersChannel, ordersFetches, docsFetches, docInserts,
                   addCall, addCount, manual,
                   pageVars, request>>

\* mutant: the row is removed from the table
RowsAfterDeleteHard(rows, id) == {d \in rows : d.id # id}

\* deleteProjectDocument: update({ is_active: false, ... }).eq('id', id)
RowsAfterDelete(rows, id) ==
    {IF d.id = id THEN [d EXCEPT !.is_active = FALSE] ELSE d : d \in rows}

\* deleteProjectDocument: setProjectDocuments(prevDocs => prevDocs.filter(...))
DocsAfterDelete(prevDocs, id) == SelectSeq(prevDocs, LAMBDA doc : doc.id # id)

\* deleteProjectDocument: the update and, unless it failed, the local
\* filter; on an error the handler logs and returns
DeleteProjectDocument(id, ok) ==
    /\ opCount < MaxOps
    /\ opCount' = opCount + 1
    /\ id \in DocIds
    /\ request' = [handler |-> "deleteProjectDocument", id |-> id,
                   status |-> "none", error |-> ~ok, thrown |-> FALSE,
                   call |-> opCount + 1]
    /\ IF ok
       THEN /\ docsChannel < MaxChannel
            /\ dbDocs' = RowsAfterDelete(dbDocs, id)
            /\ docsChannel' = docsChannel + 1
            /\ projectDocuments' = DocsAfterDelete(projectDocuments, id)
       ELSE UNCHANGED <<dbDocs, docsChannel, projectDocuments>>
    /\ UNCHANGED <<dbOrders, nextOrderId, nextDocId, orders, projects, inquiries,
                   ordersChannel, ordersFetches, docsFetches, docInserts,
                   addCall, addCount, manual,
                   pageVars>>

\* ---------------------------------------------------------------- projects, inquiries
\* Only the ids of the rows are kept.  The two lists are loaded when the
\* model starts and their refetch is left out: the handlers below are the
\* only code that writes them.
NewProjectIds == (NumProjects + 1)..(NumProjects + MaxProjects)
SeedInquiryIds == {1}
NewInquiryIds == 2..(1 + MaxInquiries)

\* addProject, successful
AddProject(id) ==
    /\ opCount < MaxOps
    /\ opCount' = opCount + 1
    /\ id \in NewProjectIds
    /\ \A i \in 1..Len(projects) : projects[i] # id
    /\ projects' = Append(projects, id)
    /\ UNCHANGED <<dbVars, orders, projectDocuments, inquiries, ordersChannel,
                   docsChannel, ordersFetches, docsFetches, docInserts, addCall,
                   addCount, manual, pageVars, request>>

\* deleteProject, successful
DeleteProject(id) ==
    /\ opCount < MaxOps
    /\ opCount' = opCount + 1
    /\ \E i \in 1..Len(projects) : projects[i] = id
    /\ projects' = SelectSeq(projects, LAMBDA project : project # id)
    /\ UNCHANGED <<dbVars, orders, projectDocuments, inquiries, ordersChannel,
                   docsChannel, ordersFetches, docsFetches, docInserts, addCall,
                   addCount, manual, pageVars, request>>

\* addInquiry, successful
AddInquiry(id) ==
    /\ opCount < MaxOps
    /\ opCount' = opCount + 1
    /\ id \in NewInquiryIds
    /\ \A i \in 1..Len(inquiries) : inquiries[i] # id
    /\ inquiries' = Append(inquiries, id)
    /\ UNCHANGED <<dbVars, orders, projectDocuments, projects, ordersChannel,
                   docsChannel, ordersFetches, docsFetches, docInserts, addCall,
                   addCount, manual, pageVars, request>>

\* deleteInquiry, successful
DeleteInquiry(id) ==
    /\ opCount < MaxOps
    /\ opCount' = opCount + 1
    /\ \E i \in 1..Len(inquiries) : inquiries[i] = id
    /\ inquiries' = SelectSeq(inquiries, LAMBDA inquiry : inquiry # id)
    /\ UNCHANGED <<dbVars, orders, projectDocuments, projects, ordersChannel,
                   docsChannel, ordersFetches, docsFetches, docInserts, addCall,
                   addCount, manual, pageVars, request>>

\* ---------------------------------------------------------------- manual send
\* a call of sendProjectDocuments: where it stands (pc), the order id it
\* was called with, the notifier calls it made and their payload, and the
\* error it threw
IdleSend ==
    [pc |-> "idle", orderId |-> 0, notified |-> 0, error |-> "none",
     payload |-> NoPayload]

\* sendProjectDocuments: if (!order) throw new Error('Order not found')
OrderNotFound(orderId) ==
    [pc |-> "thrown", orderId |-> orderId, notified |-> 0,
     error |-> "Order not found", payload |-> NoPayload]

\* sendProjectDocuments up to the notifier's await (it awaits nothing before)
SendProjectDocuments(orderId) ==
    /\ opCount < MaxOps
    /\ opCount' = opCount + 1
    /\ manual.pc # "awaitNotify"
    /\ orderId \in AllOrderIds
    /\ IF \E i \in 1..Len(orders) : orders[i].id = orderId
       THEN LET i == CHOOSE j \in 1..Len(orders) :
                        /\ orders[j].id = orderId
                        /\ \A k \in 1..(j - 1) : orders[k].id # orderId
            IN  manual' = [pc |-> "awaitNotify", orderId |-> orderId,
                           notified |-> 1, error |-> "none",
                           payload |-> DeliveryPayload(
                                 getProjectDocuments(orders[i].projectId),
                                 orders[i])]
       ELSE manual' = OrderNotFound(orderId)
    /\ UNCHANGED <<dbVars, orders, projectDocuments, projects, inquiries,
                   ordersChannel, docsChannel, ordersFetches, docsFetches,
                   docInserts, addCall, addCount,
                   pageVars, request>>

\* sendProjectDocuments after sendProjectDocumentsForOrder resolved
SendSucceeded(call) == [call EXCEPT !.pc = "returned", !.payload = NoPayload]

\* mutant: the failure is logged and swallowed, as addOrder does
SendFailedSwallowed(call) ==
    [call EXCEPT !.pc = "returned", !.error = "delivery failed",
                 !.payload = NoPayload]

\* sendProjectDocumentsForOrder and sendProjectDocuments: catch (error)
\* { console.error(...); throw error; }
SendFailed(call) ==
    [call EXCEPT !.pc = "thrown", !.error = "delivery failed",
                 !.payload = NoPayload]

SendProjectDocumentsReturn(ok) ==
    /\ manual.pc = "awaitNotify"
    /\ manual' = IF ok THEN SendSucceeded(manual) ELSE SendFailed(manual)
    /\ UNCHANGED <<dbVars, orders, projectDocuments, projects, inquiries,
                   ordersChannel, docsChannel, ordersFetches, docsFetches,
                   docInserts, addCall, addCount, opCount,
                   pageVars, request>>

\* ---------------------------------------------------------------- initial state
Init ==
    /\ dbOrders = SeedOrders
    /\ dbDocs = SeedDocs
    /\ nextOrderId = FirstOrderId
    /\ nextDocId = FirstDocId
    /\ orders = <<>>
    /\ projectDocuments = <<>>
    /\ projects = <<2, 1>>
    /\ inquiries = <<1>>
    /\ ordersChannel = 1          \* fetchOrders() on mount
    /\ docsChannel = 1            \* fetchProjectDocuments() on mount
    /\ ordersFetches = {}
    /\ docsFetches = {}
    /\ docInserts = {}
    /\ addCall = IdleCall
    /\ addCount = 0
    /\ opCount = 0
    /\ request = NoRequest
    /\ selectedOrder = NoSelection
    /\ showDetailsModal = FALSE
    /\ manual = IdleSend

\* ---------------------------------------------------------------- behaviour
Next ==
    \/ StartFetchOrders
    \/ \E rows \in ordersFetches, kind \in FetchKinds : FetchOrdersReturn(rows, kind)
    \/ StartFetchProjectDocuments
    \/ \E rows \in docsFetches, kind \in FetchKinds :
          FetchProjectDocumentsReturn(rows, kind)
    \/ \E p \in ProjectIds, st \in OrderStatuses, ok \in BOOLEAN :
          AddOrderCall(p, st, ok)
    \/ AddOrderInsertReturn
    \/ \E ok \in BOOLEAN : AddOrderNotifyReturn(ok)
    \/ \E id \in OrderIds, st \in OrderStatuses, ok \in BOOLEAN :
          UpdateOrderStatus(id, st, ok)
    \/ \E id \in OrderIds : DeleteOrder(id)
    \/ \E p \in ProjectIds, rs \in UploadStages : AddProjectDocumentCall(p, rs)
    \/ \E data \in docInserts : AddProjectDocumentReturn(data)
    \/ \E id \in DocIds, patch \in DocumentPatches : UpdateProjectDocument(id, patch)
    \/ \E id \in DocIds, ok \in BOOLEAN : DeleteProjectDocument(id, ok)
    \/ \E id \in NewProjectIds : AddProject(id)
    \/ \E id \in ProjectIds \cup NewProjectIds : DeleteProject(id)
    \/ \E id \in NewInquiryIds : AddInquiry(id)
    \/ \E id \in SeedInquiryIds \cup NewInquiryIds : DeleteInquiry(id)
    \/ \E id \in AllOrderIds : SendProjectDocuments(id)
    \/ \E ok \in BOOLEAN : SendProjectDocumentsReturn(ok)

Spec == Init /\ [][Next]_vars

\* ---------------------------------------------------------------- fetches that succeed
\* The provider when every select of fetchOrders and fetchProjectDocuments
\* is answered with data.
NextFetched ==
    \/ StartFetchOrders
    \/ \E rows \in ordersFetches : FetchOrdersReturn(rows, "data")
    \/ StartFetchProjectDocuments
    \/ \E rows \in docsFetches : FetchProjectDocumentsReturn(rows, "data")
    \/ \E p \in ProjectIds, st \in OrderStatuses, ok \in BOOLEAN :
          AddOrderCall(p, st, ok)
    \/ AddOrderInsertReturn
    \/ \E ok \in BOOLEAN : AddOrderNotifyReturn(ok)
    \/ \E id \in OrderIds, st \in OrderStatuses, ok \in BOOLEAN :
          UpdateOrderStatus(id, st, ok)
    \/ \E id \in OrderIds : DeleteOrder(id)
    \/ \E p \in ProjectIds, rs \in UploadStages : AddProjectDocumentCall(p, rs)
    \/ \E data \in docInserts : AddProjectDocumentReturn(data)
    \/ \E id \in DocIds, patch \in DocumentPatches : UpdateProjectDocument(id, patch)
    \/ \E id \in DocIds, ok \in BOOLEAN : DeleteProjectDocument(id, ok)
    \/ \E id \in NewProjectIds : AddProject(id)
    \/ \E id \in ProjectIds \cup NewProjectIds : DeleteProject(id)
    \/ \E id \in NewInquiryIds : AddInquiry(id)
    \/ \E id \in SeedInquiryIds \cup NewInquiryIds : DeleteInquiry(id)
    \/ \E id \in AllOrderIds : SendProjectDocuments(id)
    \/ \E ok \in BOOLEAN : SendProjectDocumentsReturn(ok)

SpecFetched == Init /\ [][NextFetched]_vars

\* ---------------------------------------------------------------- the page alone
\* The status page over the lists the provider may hand it: every list of
\* at most MaxPageOrders orders and MaxPageDocs documents, the tables holding
\* the same rows and nothing in flight.
MaxPageOrders == 1
MaxPageDocs == 1

PageOrderLists ==
    UNION {{[i \in 1..n |-> [id |-> i, projectId |-> f[i].projectId,
                             status |-> f[i].status,
                             updated_at |-> f[i].updated_at]] :
              f \in [1..n -> [projectId : ProjectIds, status : OrderStatuses,
                              updated_at : 1..2]]} :
           n \in 0..MaxPageOrders}

PageDocLists ==
    UNION {{[i \in 1..n |-> [id |-> i, project_id |-> f[i].project_id,
                             name |-> i, review_stage |-> f[i].review_stage,
                             is_active |-> f[i].is_active]] :
              f \in [1..n -> [project_id : ProjectIds,
                              review_stage : ReviewStages,
                              is_active : BOOLEAN]]} :
           n \in 0..MaxPageDocs}

InitPage ==
    /\ orders \in PageOrderLists
    /\ projectDocuments \in PageDocLists
    /\ dbOrders = {[id |-> orders[i].id, project_id |-> orders[i].projectId,
                    status |-> orders[i].status,
                    updated_at |-> orders[i].updated_at] : i \in 1..Len(orders)}
    /\ dbDocs = {projectDocuments[i] : i \in 1..Len(projectDocuments)}
    /\ nextOrderId = Len(orders) + 1
    /\ nextDocId = Len(projectDocuments) + 1
    /\ projects = <<2, 1>>
    /\ inquiries = <<1>>
    /\ ordersChannel = 0
    /\ docsChannel = 0
    /\ ordersFetches = {}
    /\ docsFetches = {}
    /\ docInserts = {}
    /\ addCall = IdleCall
    /\ addCount = 0
    /\ manual = IdleSend
    /\ opCount = 0
    /\ request = NoRequest
    /\ selectedOrder = NoSelection
    /\ showDetailsModal = FALSE

NextPage ==
    \/ \E id \in 1..MaxPageOrders : OpenDetailsModal(id)
    \/ CloseDetailsModal

SpecPage == InitPage /\ [][NextPage]_vars

\* ---------------------------------------------------------------- properties
\* the active documents of a project, counted on the list itself
ActiveCountIn(docs, projectId) ==
    Cardinality({i \in 1..Len(docs) :
                    /\ docs[i].project_id = projectId
                    /\ docs[i].is_active = TRUE})

ActiveCount(projectId) == ActiveCountIn(projectDocuments, projectId)

\* the active documents of a project at one review stage
ActiveStageCount(projectId, stage) ==
    Cardinality({i \in 1..Len(projectDocuments) :
                    /\ projectDocuments[i].project_id = projectId
                    /\ projectDocuments[i].is_active = TRUE
                    /\ projectDocuments[i].review_stage = stage})

\* the classification as the specification words it
SpecClass(status, activeCount) ==
    CASE activeCount = 0 -> "no-documents"
      [] activeCount # 0 /\ status = "completed" -> "delivered"
      [] activeCount # 0 /\ status = "pending" -> "pending"
      [] OTHER -> "partial"

\* C1: every order's derived status is 'no-documents' when its project has
\* no active document, else 'delivered' when the order is 'completed', else
\* 'pending' when it is 'pending', else 'partial'.
C1_Classification ==
    \A i \in 1..Len(orders) :
        documentStatuses[i].status =
            SpecClass(orders[i].status, ActiveCount(orders[i].projectId))

\* a completed order classified 'no-documents': the only document of its
\* project is soft-deleted
C1_Witness ==
    \E i \in 1..Len(orders), k \in 1..Len(projectDocuments) :
        /\ orders[i].status = "completed"
        /\ projectDocuments[k].project_id = orders[i].projectId
        /\ ~projectDocuments[k].is_active
        /\ ActiveCount(orders[i].projectId) = 0
        /\ documentStatuses[i].status = "no-documents"

\* the step in which addOrder hands the order to the notifier
NotifierInvoked == addCall.pc = "awaitInsert" /\ addCall'.pc = "awaitNotify"

\* C2: a call of addOrder whose insert succeeded has invoked the notifier
\* exactly once, for the inserted order, and the invocation comes with the
\* insert answered without error and the new order appended to the list.
C2_NotifiedOnceAfterInsert ==
    /\ [](addCall.pc \in {"awaitNotify", "returned"} /\ ~addCall.error
            => addCall.notified = 1)
    /\ [](addCall.pc = "awaitNotify" => addCall.payload.order_id = addCall.data.id)
    /\ [][addCall'.notified > addCall.notified =>
            /\ addCall.pc = "awaitInsert"
            /\ ~addCall.error
            /\ addCall.data.id \in FirstOrderId..(nextOrderId - 1)
            /\ addCall'.notified = addCall.notified + 1
            /\ Len(orders') = Len(orders) + 1
            /\ orders'[Len(orders')] = ConvertOrder(addCall.data)]_vars

\* addOrder returned after one notifier call for the order it inserted
C2_Witness ==
    /\ addCall.pc = "returned"
    /\ ~addCall.error
    /\ addCall.notified = 1
    /\ addCall.returned >= FirstOrderId

\* the step in which addOrder's notifier call fails
NotifierFailed ==
    /\ addCall.pc = "awaitNotify"
    /\ addCall'.pc # "awaitNotify"
    /\ addCall'.emailError

\* C3: when the notifier fails, addOrder still returns the created order,
\* and the failure changes neither the tables nor any local list.
C3_NotifierFailureSwallowed ==
    [][NotifierFailed =>
          /\ addCall'.pc = "returned"
          /\ addCall'.returned = addCall.data.id
          /\ UNCHANGED <<dbOrders, dbDocs, orders, projects, inquiries,
                         projectDocuments>>]_vars

\* addOrder returned its order after a failed notification, the order being
\* in the table and in the list
C3_Witness ==
    /\ addCall.pc = "returned"
    /\ addCall.emailError
    /\ \E r \in dbOrders : r.id = addCall.returned
    /\ \E i \in 1..Len(orders) : orders[i].id = addCall.returned

\* C4: the notifier is invoked once whether or not the order's project has
\* documents; when the call's getProjectDocuments finds none, the payload's
\* documents list is empty.
C4_NotifiedWithoutDocuments ==
    [][(addCall.pc = "awaitInsert" /\ ~addCall.error /\ addCall'.pc # "awaitInsert") =>
          /\ addCall'.pc = "awaitNotify"
          /\ addCall'.notified = 1
          /\ Len(addCall'.payload.documents) = Len(addCall.docs)
          /\ (addCall.docs = <<>> => addCall'.payload.documents = <<>>)]_vars

\* the notifier was invoked with an empty manifest
C4_Witness ==
    /\ addCall.pc = "awaitNotify"
    /\ addCall.notified = 1
    /\ addCall.payload.documents = <<>>

\* C5: the payload's documents are the active documents of the order's
\* project at the time the notifier is called.
C5_ManifestIsCurrent ==
    [][NotifierInvoked =>
          addCall'.payload.documents =
              FormattedDocuments(getProjectDocuments(addCall.data.project_id))]_vars

\* C6: every order of the list has one of the four statuses and the
\* dashboard's four counts add up to its total, the number of orders.
C6_StatsPartition ==
    /\ \A i \in 1..Len(documentStatuses) :
          documentStatuses[i].status \in
              {"delivered", "pending", "no-documents", "partial"}
    /\ stats.total = Len(orders)
    /\ stats.delivered + stats.pending + stats.noDocuments + stats.partial
          = stats.total

\* two orders in different classes
C6_Witness ==
    /\ stats.total = 2
    /\ stats.pending = 1
    /\ stats.delivered = 1

\* C7: the classification depends on the order's status and on the number
\* of active documents of its project only: two orders that agree on both,
\* in one state or in two successive ones, are classified alike; an order
\* record holds no classification.
SameInputsSameClass ==
    \A i \in 1..Len(orders), j \in 1..Len(orders') :
        (/\ orders[i].status = orders'[j].status
         /\ ActiveCount(orders[i].projectId) =
               ActiveCountIn(projectDocuments', orders'[j].projectId))
        => documentStatuses[i].status = documentStatuses'[j].status

C8_NoRetry == addCall.notified <= 1

\* addOrder is over, its one notifier call having failed
C8_Witness ==
    /\ addCall.pc = "returned"
    /\ addCall.emailError
    /\ addCall.notified = 1

\* the step in which addOrder learns that the insert failed
InsertErrorSeen ==
    addCall.pc = "awaitInsert" /\ addCall.error /\ addCall'.pc # "awaitInsert"

\* C9: when the insert fails addOrder throws, the notifier is not invoked
\* and the orders list is as it was.
C9_InsertFailureThrows ==
    /\ [][InsertErrorSeen =>
            /\ addCall'.pc = "thrown"
            /\ addCall'.notified = 0
            /\ orders' = orders]_vars
    /\ [](addCall.error => addCall.notified = 0 /\ addCall.payload = NoPayload)

\* addOrder threw on a failed insert
C9_Witness ==
    /\ addCall.pc = "thrown"
    /\ addCall.error
    /\ addCall.notified = 0

CountedStages == {"review_1", "review_2", "review_3"}

\* C10: documentsCount is the number of active documents of the order's
\* project, each stage count is the number of those at that stage, which is
\* what getDocumentsByReviewStage returns, and the three stage counts add up
\* to documentsCount when those documents are all at one of the three stages.
C10_Counts ==
    \A i \in 1..Len(orders) :
        LET row == documentStatuses[i]
            pid == orders[i].projectId
        IN  /\ row.documentsCount = ActiveCount(pid)
            /\ \A stage \in CountedStages :
                  /\ row.reviewStages[stage] = ActiveStageCount(pid, stage)
                  /\ row.reviewStages[stage] =
                        Len(getDocumentsByReviewStage(pid, stage))
            /\ (\A stage \in ReviewStages \ CountedStages :
                    ActiveStageCount(pid, stage) = 0)
               => row.reviewStages.review_1 + row.reviewStages.review_2
                    + row.reviewStages.review_3 = row.documentsCount

\* an order whose project has two active documents at two counted stages
C10_Witness ==
    \E i \in 1..Len(orders) :
        /\ documentStatuses[i].documentsCount = 2
        /\ documentStatuses[i].reviewStages.review_1 = 1
        /\ documentStatuses[i].reviewStages.review_3 = 1

\* the step in which deleteProjectDocument(id) runs
DeleteDocumentStep(id) ==
    /\ request'.call = opCount + 1
    /\ request'.handler = "deleteProjectDocument"
    /\ request'.id = id

\* the last update request was a successful soft delete of document id and
\* the row has not been written since
SoftDeleted(id) ==
    /\ request.handler = "deleteProjectDocument"
    /\ request.id = id
    /\ ~request.error
    /\ \E d \in dbDocs : d.id = id /\ ~d.is_active

\* document id is counted for some project: it is active in the local list
Counted(id) ==
    \E k \in 1..Len(projectDocuments) :
        projectDocuments[k].id = id /\ projectDocuments[k].is_active

\* document id is in the manifest of a payload
InManifest(id, payload) ==
    \E k \in 1..Len(payload.documents) : payload.documents[k].name = id

\* a manifest built in this step, by addOrder or by sendProjectDocuments,
\* holds document id
SentInManifest(id) ==
    \/ addCall'.notified > addCall.notified /\ InManifest(id, addCall'.payload)
    \/ /\ manual.pc # "awaitNotify"
       /\ manual'.pc = "awaitNotify"
       /\ InManifest(id, manual'.payload)

\* the successful delete keeps the row, inactive, and drops the document
\* from the list; the failed one changes neither
C11_DeleteStep ==
    [][\A id \in DocIds :
         DeleteDocumentStep(id) =>
            IF request'.error
            THEN UNCHANGED <<dbDocs, projectDocuments>>
            ELSE /\ \E d \in dbDocs' : d.id = id /\ ~d.is_active
                 /\ Cardinality(dbDocs') = Cardinality(dbDocs)
                 /\ \A k \in 1..Len(projectDocuments') :
                        projectDocuments'[k].id # id
                 /\ \A o \in 1..Len(orders) :
                        ActiveCount(orders[o].projectId) = 1
                        /\ (\E k \in 1..Len(projectDocuments) :
                               /\ projectDocuments[k].id = id
                               /\ projectDocuments[k].is_active
                               /\ projectDocuments[k].project_id =
                                     orders[o].projectId)
                        => documentStatuses'[o].status = "no-documents"]_vars

\* C11: deleteProjectDocument is a soft delete: on success the row stays in
\* the table with is_active false and the document leaves the list, and
\* from then on it is neither counted for an order nor part of a manifest;
\* on a database error the list is unchanged.
C11_SoftDelete ==
    /\ C11_DeleteStep
    /\ [](\A id \in DocIds : SoftDeleted(id) => ~Counted(id))
    /\ [][\A id \in DocIds : SoftDeleted(id) => ~SentInManifest(id)]_vars

\* no two entries of a list have the same id
DistinctIds(list) ==
    \A i, j \in 1..Len(list) : list[i].id = list[j].id => i = j

\* C12: however addOrder and addProjectDocument interleave with the refetch
\* their insert triggers, neither the orders list nor the document list
\* holds two entries with the same id, so the dashboard counts every order
\* once.
C12_NoDuplicateIds ==
    /\ DistinctIds(orders)
    /\ DistinctIds(projectDocuments)
    /\ stats.total = Cardinality({orders[i].id : i \in 1..Len(orders)})

\* C13: the action the details modal recommends agrees with the table's
\* row of the same order: 'Upload Documents' exactly when the row is
\* 'no-documents', 'Send Documents' only when it is not 'delivered', and
\* 'Documents Delivered' only when it is 'delivered'.
C13_ModalAgreesWithTable ==
    ModalShown =>
        \A i \in 1..Len(documentStatuses) :
            documentStatuses[i].orderId = selectedOrder.id =>
                LET class == documentStatuses[i].status
                    action == RecommendedAction(selectedOrder)
                IN  /\ action = "Upload Documents" <=> class = "no-documents"
                    /\ action = "Send Documents" => class # "delivered"
                    /\ action = "Documents Delivered" => class = "delivered"

\* every change event was delivered, every fetch it triggered was answered
\* and handled, and no handler is waiting at an await
Quiescent ==
    /\ ordersChannel = 0
    /\ docsChannel = 0
    /\ ordersFetches = {}
    /\ docsFetches = {}
    /\ docInserts = {}
    /\ addCall.pc \notin {"awaitInsert", "awaitNotify"}
    /\ manual.pc # "awaitNotify"

\* the list holds one entry for each row of the table, with its status
OrdersMatchTable ==
    /\ {[id |-> orders[i].id, status |-> orders[i].status] : i \in 1..Len(orders)}
          = {[id |-> r.id, status |-> r.status] : r \in dbOrders}
    /\ Len(orders) = Cardinality(dbOrders)

\* the list holds one entry for each active row of the table
DocumentsMatchTable ==
    /\ {projectDocuments[i] : i \in 1..Len(projectDocuments)}
          = {d \in dbDocs : d.is_active}
    /\ Len(projectDocuments) = Cardinality({d \in dbDocs : d.is_active})

\* C14: when every fetch succeeds, then once every change event has been
\* delivered and every fetch handled, the orders list holds exactly the rows
\* of the orders table with their status, and the document list exactly the
\* rows with is_active true.
C14_Converges == Quiescent => OrdersMatchTable /\ DocumentsMatchTable

\* the step in which updateOrderStatus(id, ...) runs
UpdateStatusStep(id) ==
    /\ request'.call = opCount + 1
    /\ request'.handler = "updateOrderStatus"
    /\ request'.id = id

SendCalled == manual.pc # "awaitNotify" /\ manual' # manual

\* C16: sendProjectDocuments called with an id that no order of the list
\* has throws 'Order not found' and calls no notifier; called with the id
\* of a listed order it calls the notifier once, for that order, and when
\* that call fails it throws.
C16_SendProjectDocuments ==
    /\ [][SendCalled =>
            IF \E i \in 1..Len(orders) : orders[i].id = manual'.orderId
            THEN /\ manual'.pc = "awaitNotify"
                 /\ manual'.notified = 1
                 /\ manual'.payload.order_id = manual'.orderId
            ELSE /\ manual'.pc = "thrown"
                 /\ manual'.error = "Order not found"
                 /\ manual'.notified = 0
                 /\ manual'.payload = NoPayload]_vars
    /\ [][manual.pc = "awaitNotify" =>
            /\ manual'.notified = 1
            /\ manual'.orderId = manual.orderId]_vars
    /\ [](manual.error = "delivery failed" =>
            manual.pc = "thrown" /\ manual.notified = 1)
    /\ [](manual.pc = "returned" => manual.error = "none" /\ manual.notified = 1)

\* sendProjectDocuments threw after its one notifier call failed, for an
\* order of the list
C16_Witness ==
    /\ manual.pc = "thrown"
    /\ manual.error = "delivery failed"
    /\ manual.notified = 1
    /\ \E i \in 1..Len(orders) : orders[i].id = manual.orderId

\* sendProjectDocuments threw 'Order not found' while the orders list was
\* loaded
C16_WitnessNotFound ==
    /\ manual.pc = "thrown"
    /\ manual.error = "Order not found"
    /\ manual.notified = 0
    /\ Len(orders) > 0

\* C17: a row's lastDeliveryDate is set, to the order's time of update,
\* only when the row is 'delivered'; a 'pending', 'partial' or
\* 'no-documents' row has none, and its status cell shows no delivery date.
C17_LastDeliveryDate ==
    \A i \in 1..Len(orders) :
        LET row == documentStatuses[i]
        IN  /\ row.lastDeliveryDate # Undefined => row.status = "delivered"
            /\ row.status \in {"pending", "partial", "no-documents"}
                  => row.lastDeliveryDate = Undefined /\ ~ShowsDeliveryDate(row)
            /\ row.status = "delivered"
                  => row.lastDeliveryDate = orders[i].updated_at

\* a delivered row carrying its order's time of update
C17_Witness ==
    \E i \in 1..Len(orders) :
        /\ documentStatuses[i].status = "delivered"
        /\ orders[i].updated_at = 2
        /\ documentStatuses[i].lastDeliveryDate = 2
        /\ ShowsDeliveryDate(documentStatuses[i])

\* C18: a row offers 'Upload documents' exactly when it is 'no-documents'
\* and 'Send documents' exactly when it is 'pending' or 'partial', such rows
\* always having documentsCount > 0; a 'delivered' row offers neither and no
\* row offers both.
C18_RowActions ==
    \A i \in 1..Len(documentStatuses) :
        LET row == documentStatuses[i]
        IN  /\ OffersUpload(row) <=> row.status = "no-documents"
            /\ OffersSend(row) <=> row.status \in {"pending", "partial"}
            /\ row.status \in {"pending", "partial"} => row.documentsCount > 0
            /\ row.status = "delivered" => ~OffersUpload(row) /\ ~OffersSend(row)
            /\ ~(OffersUpload(row) /\ OffersSend(row))

\* a 'partial' row, offering the send action only
C18_Witness ==
    \E i \in 1..Len(documentStatuses) :
        /\ documentStatuses[i].status = "partial"
        /\ documentStatuses[i].documentsCount > 0
        /\ OffersSend(documentStatuses[i])
        /\ ~OffersUpload(documentStatuses[i])

====
